---- MODULE Spec2Model ----
(***************************************************************************)
(* Duplicate-file detection of penpon/duplicate_scan: the chunked hasher   *)
(* (src/services/hasher.py), its thread-pool runner, and the staged        *)
(* detector (src/services/detector.py).                                    *)
(*                                                                         *)
(* A FileMeta object is an element of the sequence files; lists of         *)
(* FileMeta objects held by the detector and the runner are sequences of   *)
(* indices into files (object references).  The bytes behind a path are    *)
(* disk[path].                                                             *)
(***************************************************************************)
EXTENDS Integers, Sequences, FiniteSets, TLC

\* ------------------------------------------------------------------ bounds
MaxFiles == 4        \* longest input list
MaxByte == 1         \* bytes are 0..MaxByte
MaxStale == 1        \* records of the input that carry fingerprints of an earlier scan
MaxWorkersArg == 2   \* largest max_workers passed to a direct runner call
MaxBatch == 3        \* longest list passed to a direct runner call
ChunkSize == 1       \* Hasher.chunk_size of the detector's runs (4096 by default in the program)
HashMod == 256       \* digests are fixed-width values 0..HashMod-1
MaxChunk == 3        \* largest Hasher.chunk_size of a single-file hash call
MaxLen == 6          \* longest file given to a single-file hash call
MaxSize == 2         \* sizes of hand-built records are 1..MaxSize
MaxFingerprint == 2  \* fingerprints of hand-built records are 1..MaxFingerprint
MaxTotal == 4        \* largest total_size handed to the DuplicateGroup constructor
MaxWalk == 2         \* most files under the selected folders when folders overlap
MaxConfigured == 2   \* largest ScanConfig.parallel_workers of a configured run
MaxDelete == 3       \* longest list passed to delete_files
MaxTime == 2         \* modified_time of the records shown in the results view is 1..MaxTime
MaxGroups == 2       \* most groups shown in the results view

\* ------------------------------------------------------- program constants
DefaultMaxWorkers == 4    \* max_workers default of the two *_parallel methods
DefaultParallelWorkers == 4   \* ScanConfig.parallel_workers default

None == -1                \* Python's None in a fingerprint field

Bytes == 0..MaxByte
HashBase == MaxByte + 2

Min(a, b) == IF a < b THEN a ELSE b

\* disk[path] when no file is at path
Missing == << None >>

\* ------------------------------------------------------------------- state
VARIABLES
  hash_algorithm,      \* Hasher.hash_algorithm
  parallel_workers,    \* ScanConfig.parallel_workers of the configuration in use
  raised,              \* the exception that left a single-file hash call or the
                       \* Hasher constructor, if any
  chunk_size,          \* Hasher.chunk_size, in bytes
  disk,                \* path -> bytes of the file at that path
  files,               \* the FileMeta objects of the input list, in list order
  pc,                  \* position of the coordinating thread
  batch,               \* runner: the list it was called with (indices into files)
  attr_name,           \* runner: "partial_hash" or "full_hash"
  max_workers,         \* runner: size of the ThreadPoolExecutor
  futures,             \* runner: one future per submitted task
  calls,               \* hash_func invocations so far, per attribute and record
  warned,              \* logger.warning records of the runner: <<attr_name, record>>
  size_candidates,     \* detector: result of _collect_size_candidates
  partial_candidates,  \* detector: result of _collect_partial_candidates
  duplicate_groups,    \* detector: the returned list of DuplicateGroup
  progress,            \* calls of progress_callback, in order
  given_files,         \* the records as they were when the list was passed in
  selected_files,      \* ResultsView.selected_files (a set of FileMeta)
  delete_button_disabled,  \* ResultsView.delete_button.disabled
  backup_dir,          \* names of the files in the Deleter's backup directory
  result,              \* the DeleteResult of the delete_files call under way
  index                \* delete_files: records of the list handled so far

vars == <<hash_algorithm, parallel_workers, raised, chunk_size, disk, files, pc, batch, attr_name, max_workers, futures, calls, warned,
          size_candidates, partial_candidates, duplicate_groups, progress,
          given_files, selected_files, delete_button_disabled, backup_dir, result, index>>

viewVars == <<selected_files, delete_button_disabled>>
deleterVars == <<backup_dir, result, index>>
restVars == <<given_files, viewVars, deleterVars>>
configVars == <<hash_algorithm, parallel_workers>>
runnerVars == <<batch, attr_name, max_workers, futures>>
detectorVars == <<size_candidates, partial_candidates, duplicate_groups, progress>>

\* ------------------------------------------------------------------ hasher
\* hash_obj.update(chunk): fold the bytes of chunk into the hash state h.
RECURSIVE hash_update(_, _)
hash_update(h, chunk) ==
  IF chunk = <<>> THEN h
  ELSE hash_update((h * HashBase + Head(chunk) + 1) % HashMod, Tail(chunk))

\* names a Hasher may be asked for: two of hashlib's fixed-length digests,
\* xxhash64, one of hashlib's variable-length digests (hexdigest needs a
\* length), and a name no library knows
Algorithms == {"sha256", "md5", "xxhash64", "shake_128", "invalid_algorithm"}

\* hashlib.algorithms_available, as far as Algorithms goes
algorithms_available == {"sha256", "md5", "shake_128"}

\* hash objects whose hexdigest() takes a required length argument
VariableLength == {"shake_128"}

\* no exception
NoException == [ exc |-> "None", at |-> "None" ]

\* _get_hash_object(): a fresh hash state of the configured algorithm.
get_hash_object ==
  IF hash_algorithm = "xxhash64" THEN 1
  ELSE IF hash_algorithm = "md5" THEN 2
  ELSE IF hash_algorithm = "shake_128" THEN 3
  ELSE 0

\* hash_obj.hexdigest()
hexdigest(h) == h

\* f.read(n) at offset pos (0-based) of content
read(content, pos, n) == SubSeq(content, pos + 1, Min(Len(content), pos + n))

\* the read loop with a fresh hash object for every chunk
RECURSIVE full_hash_loop_restart(_, _, _)
full_hash_loop_restart(content, pos, h) ==
  LET chunk == read(content, pos, chunk_size)
  IN IF chunk = <<>> THEN h
     ELSE full_hash_loop_restart(content, pos + Len(chunk),
                                 hash_update(get_hash_object, chunk))

\* calculate_full_hash: while chunk := f.read(chunk_size): hash_obj.update(chunk)
RECURSIVE full_hash_loop(_, _, _)
full_hash_loop(content, pos, h) ==
  LET chunk == read(content, pos, chunk_size)
  IN IF chunk = <<>> THEN h
     ELSE full_hash_loop(content, pos + Len(chunk), hash_update(h, chunk))

\* calculate_full_hash with "if" for "while": only the first chunk is hashed
calculate_full_hash_first_chunk(content) ==
  hexdigest(hash_update(get_hash_object, read(content, 0, chunk_size)))

calculate_full_hash(content) == hexdigest(full_hash_loop(content, 0, get_hash_object))

\* calculate_partial_hash without the read of the last chunk
calculate_partial_hash_first_chunk(content) ==
  IF Len(content) <= 2 * chunk_size
  THEN hexdigest(hash_update(get_hash_object, content))
  ELSE hexdigest(hash_update(get_hash_object, read(content, 0, chunk_size)))

\* calculate_partial_hash: whole file when size <= 2 * chunk_size, otherwise
\* the first chunk and, after seek(-chunk_size, 2), the last chunk.
calculate_partial_hash(content) ==
  LET file_size == Len(content)
  IN IF file_size <= 2 * chunk_size
     THEN hexdigest(hash_update(get_hash_object, content))
     ELSE LET first_chunk == read(content, 0, chunk_size)
              last_chunk == read(content, file_size - chunk_size, chunk_size)
          IN hexdigest(hash_update(hash_update(get_hash_object, first_chunk), last_chunk))

\* the hash_func a runner call was given, by the attribute it fills
hash_func(attr, content) ==
  IF attr = "partial_hash" THEN calculate_partial_hash(content)
  ELSE calculate_full_hash(content)

\* exceptions a single-file hash call raises: FileNotFoundError from the
\* exists() check, OSError for every read error (PermissionError included)
HashErrors == {"FileNotFoundError", "OSError"}

Attrs == {"partial_hash", "full_hash"}

\* contents of the files of the scanned folders: two one-chunk files that
\* differ, and two files longer than 2 * ChunkSize with equal first and last
\* chunk and different middle; listed so that equal sizes are not adjacent
SampleContents == << <<0>>, <<0, 0, 0>>, <<1>>, <<0, 1, 0>> >>

\* FileMeta(path, size, modified_time, partial_hash, full_hash); old is the
\* content an earlier scan hashed (an index into SampleContents), or 0 for a
\* fresh record
\* stat.st_mtime of the file at path: every file was written at its own time
st_mtime(path) == path

FileMeta(path, content, old) ==
  [ path |-> path,
    size |-> Len(content),
    modified_time |-> st_mtime(path),
    partial_hash |-> IF old = 0 THEN None
                     ELSE calculate_partial_hash(SampleContents[old]),
    full_hash |-> IF old = 0 THEN None
                  ELSE calculate_full_hash(SampleContents[old]) ]

\* DuplicateGroup.computed_total_size
RECURSIVE computed_total_size(_)
computed_total_size(group_files) ==
  IF group_files = <<>> THEN 0
  ELSE files[Head(group_files)].size + computed_total_size(Tail(group_files))

\* a DuplicateGroup whose total_size is the size of its first file
DuplicateGroup_first_size(group_files, total_size) ==
  [ files |-> group_files,
    total_size |-> IF total_size # None THEN total_size
                   ELSE IF group_files = <<>> THEN 0 ELSE files[Head(group_files)].size ]

\* DuplicateGroup(files, total_size): __post_init__ fills total_size from
\* computed_total_size when it is None and keeps a supplied value as it is
DuplicateGroup(group_files, total_size) ==
  [ files |-> group_files,
    total_size |-> IF total_size = None THEN computed_total_size(group_files)
                   ELSE total_size ]

\* ------------------------------------------------------------ _group_by_key
Indices(seq) == [ i \in 1..Len(seq) |-> i ]

\* _group_by_key(items, key_func), keys[i] = key_func(items[i]): the dict's
\* values in insertion order of the keys, each list in order of the items
group_by_key(items, keys) ==
  LET first_seen == SelectSeq(Indices(items),
                              LAMBDA i : \A j \in 1..(i - 1) : keys[j] # keys[i])
      members(k) == SelectSeq(Indices(items), LAMBDA i : keys[i] = k)
  IN [ g \in 1..Len(first_seen) |->
         LET m == members(keys[first_seen[g]])
         IN [ x \in 1..Len(m) |-> items[m[x]] ] ]

\* groups.values() with len(group) >= 2, concatenated (candidates.extend(group))
RECURSIVE extend_all(_)
extend_all(groups) ==
  IF groups = <<>> THEN <<>> ELSE Head(groups) \o extend_all(Tail(groups))

at_least_two(groups) == SelectSeq(groups, LAMBDA g : Len(g) >= 2)

size_keys(items) == [ i \in 1..Len(items) |-> files[items[i]].size ]
partial_keys(items) == [ i \in 1..Len(items) |-> files[items[i]].partial_hash ]
full_keys(items) == [ i \in 1..Len(items) |-> files[items[i]].full_hash ]

\* ---------------------------------------------------------------- detector
\* _collect_size_candidates without the test len(group) >= 2
collect_size_candidates_all(items) ==
  extend_all(group_by_key(items, size_keys(items)))

\* _collect_size_candidates: files of size buckets with >= 2 members
collect_size_candidates(items) ==
  extend_all(at_least_two(group_by_key(items, size_keys(items))))

\* _collect_partial_candidates after the runner returned:
\* [f for f in size_candidates if f.partial_hash is not None]
files_with_partial(candidates) ==
  SelectSeq(candidates, LAMBDA f : files[f].partial_hash # None)

\* _collect_partial_candidates filtering every record that has a partial_hash,
\* not only the size candidates
collect_partial_candidates_all_files(candidates) ==
  LET with_partial == files_with_partial(Indices(files))
  IN extend_all(at_least_two(group_by_key(with_partial, partial_keys(with_partial))))

collect_partial_candidates(candidates) ==
  LET with_partial == files_with_partial(candidates)
  IN extend_all(at_least_two(group_by_key(with_partial, partial_keys(with_partial))))

\* _collect_full_hash_duplicates after the runner returned
files_with_full(candidates) ==
  SelectSeq(candidates, LAMBDA f : files[f].full_hash # None)

\* _collect_full_hash_duplicates without the test len(exact_duplicates) >= 2
collect_full_hash_duplicates_any(candidates) ==
  LET with_full == files_with_full(candidates)
      exact == group_by_key(with_full, full_keys(with_full))
  IN [ g \in 1..Len(exact) |-> DuplicateGroup(exact[g], None) ]

collect_full_hash_duplicates(candidates) ==
  LET with_full == files_with_full(candidates)
      exact == at_least_two(group_by_key(with_full, full_keys(with_full)))
  IN [ g \in 1..Len(exact) |-> DuplicateGroup(exact[g], None) ]

\* find_duplicates: size buckets, inside each the partial-hash buckets of the
\* files whose partial_hash is set, inside each the full-hash buckets of the
\* files whose full_hash is set; every bucket needs >= 2 files
\* step 2 of find_duplicates without the filter on partial_hash is not None
partial_groups_of_keeps_none(files_with_same_size) ==
  at_least_two(group_by_key(files_with_same_size, partial_keys(files_with_same_size)))

partial_groups_of(files_with_same_size) ==
  LET with_partial == files_with_partial(files_with_same_size)
  IN IF Len(with_partial) >= 2
     THEN at_least_two(group_by_key(with_partial, partial_keys(with_partial)))
     ELSE <<>>

\* step 3 of find_duplicates without the grouping by full_hash
full_groups_of_ungrouped(files_with_same_partial) ==
  LET with_full == files_with_full(files_with_same_partial)
  IN IF Len(with_full) >= 2 THEN << with_full >> ELSE <<>>

full_groups_of(files_with_same_partial) ==
  LET with_full == files_with_full(files_with_same_partial)
  IN IF Len(with_full) >= 2
     THEN at_least_two(group_by_key(with_full, full_keys(with_full)))
     ELSE <<>>

find_duplicates(items) ==
  LET size_groups == at_least_two(group_by_key(items, size_keys(items)))
      partial_hash_groups ==
        extend_all([ g \in 1..Len(size_groups) |-> partial_groups_of(size_groups[g]) ])
      exact ==
        extend_all([ g \in 1..Len(partial_hash_groups) |->
                       full_groups_of(partial_hash_groups[g]) ])
  IN IF items = <<>> THEN <<>>
     ELSE [ g \in 1..Len(exact) |-> DuplicateGroup(exact[g], None) ]

\* ------------------------------------------------------------------ runner
NoFuture == [ st |-> "queued", hash_value |-> None, exc |-> "None", error |-> "None" ]

\* executor.submit(_worker, file_meta) for file_meta in files
\* the submit loop stopping one record short
submit_all_but_last(items) == [ k \in 1..(Len(items) - 1) |-> NoFuture ]

submit_all(items) == [ k \in 1..Len(items) |-> NoFuture ]

Running == { k \in 1..Len(futures) : futures[k].st = "running" }
\* the runner returning as soon as every task was started
AllCollected_none_queued == \A k \in 1..Len(futures) : futures[k].st # "queued"

\* the runner returning as soon as the first result was collected
AllCollected_first_collected == futures # <<>> => futures[1].st = "collected"

\* the runner returning once every task is over, results not yet taken
AllCollected_all_finished ==
  \A k \in 1..Len(futures) : futures[k].st \in {"done", "collected"}

\* the as_completed loop and the executor's shutdown are over
AllCollected == \A k \in 1..Len(futures) : futures[k].st = "collected"
InRunner == pc \in {"partial_hashing", "full_hashing", "direct"}

count_call(a, f) == [ calls EXCEPT ![a][f] = @ + 1 ]

\* TaskStart with pool threads that end after their first work item
TaskStart_no_second_item(k) ==
  /\ InRunner
  /\ futures[k].st = "queued"
  /\ k <= max_workers
  /\ futures' = [ futures EXCEPT ![k].st = "running" ]
  /\ UNCHANGED <<restVars, configVars, raised, chunk_size, disk, files, pc, batch, attr_name, max_workers, calls, warned,
                 detectorVars>>

\* a pool thread takes the next work item off the executor's FIFO queue
TaskStart(k) ==
  /\ InRunner
  /\ futures[k].st = "queued"
  /\ \A j \in 1..(k - 1) : futures[j].st # "queued"
  /\ Cardinality(Running) < max_workers
  /\ futures' = [ futures EXCEPT ![k].st = "running" ]
  /\ UNCHANGED <<restVars, configVars, raised, chunk_size, disk, files, pc, batch, attr_name, max_workers, calls, warned,
                 detectorVars>>

\* _worker with "except FileNotFoundError" for "except Exception"
worker_catches_not_found_only(e) == e = "FileNotFoundError"

\* _worker's "except Exception": every exception of a hash call is caught
worker_catches(e) == e \in HashErrors

\* _worker(file_meta) as the future's state once the task is over: the tuple
\* (file_meta, hash_value, exc) it returned, or the exception that escaped it.
\* The runner only tests "exc is not None" and logs exc, so a caught exception
\* is kept as "Exception", the class the except clause names.
worker(content, outcome) ==
  IF outcome = "ok"
  THEN [ st |-> "done", hash_value |-> hash_func(attr_name, content),
         exc |-> "None", error |-> "None" ]
  ELSE IF worker_catches(outcome)
  THEN [ st |-> "done", hash_value |-> None, exc |-> "Exception", error |-> "None" ]
  ELSE [ st |-> "done", hash_value |-> None, exc |-> "None", error |-> outcome ]

\* the file a task reads: file_meta.path of the record it was submitted with
task_content(k) == disk[files[batch[k]].path]

\* TaskSucceed with a _worker that sets the record's field itself
TaskSucceed_sets_field(k) ==
  /\ InRunner
  /\ futures[k].st = "running"
  /\ futures' = [ futures EXCEPT ![k] = worker(task_content(k), "ok") ]
  /\ files' = IF attr_name = "partial_hash"
              THEN [ files EXCEPT ![batch[k]].partial_hash = futures'[k].hash_value ]
              ELSE [ files EXCEPT ![batch[k]].full_hash = futures'[k].hash_value ]
  /\ calls' = count_call(attr_name, batch[k])
  /\ UNCHANGED <<restVars, configVars, raised, chunk_size, disk, pc, batch, attr_name, max_workers, warned, detectorVars>>

\* a pool thread ran _worker to its end; the hash call returned a digest
TaskSucceed(k) ==
  /\ InRunner
  /\ futures[k].st = "running"
  /\ futures' = [ futures EXCEPT ![k] = worker(task_content(k), "ok") ]
  /\ calls' = count_call(attr_name, batch[k])
  /\ UNCHANGED <<restVars, configVars, raised, chunk_size, disk, files, pc, batch, attr_name, max_workers, warned, detectorVars>>

\* a pool thread ran _worker to its end; the hash call raised
TaskFail(k) ==
  /\ InRunner
  /\ futures[k].st = "running"
  /\ \E e \in HashErrors :
       futures' = [ futures EXCEPT ![k] = worker(task_content(k), e) ]
  /\ calls' = count_call(attr_name, batch[k])
  /\ UNCHANGED <<restVars, configVars, raised, chunk_size, disk, files, pc, batch, attr_name, max_workers, warned, detectorVars>>

\* collect_result setting both fingerprint fields to the value
collect_result_both_fields(fs, f, fut) ==
  IF fut.exc # "None" THEN fs
  ELSE [ fs EXCEPT ![f].partial_hash = fut.hash_value, ![f].full_hash = fut.hash_value ]

\* the body of "for future in as_completed(futures)" after future.result():
\* on an exception warn and continue, otherwise setattr(file_meta, attr_name, hash_value)
collect_result(fs, f, fut) ==
  IF fut.exc # "None" THEN fs
  ELSE IF attr_name = "partial_hash"
       THEN [ fs EXCEPT ![f].partial_hash = fut.hash_value ]
       ELSE [ fs EXCEPT ![f].full_hash = fut.hash_value ]

\* one turn of the as_completed loop; future.result() re-raises what escaped
\* the worker, and neither the runner nor the detector catches it
Collect(k) ==
  /\ InRunner
  /\ futures[k].st = "done"
  /\ futures' = [ futures EXCEPT ![k].st = "collected" ]
  /\ IF futures[k].error # "None"
     THEN /\ pc' = "raised"
          /\ UNCHANGED <<files, warned>>
     ELSE /\ files' = collect_result(files, batch[k], futures[k])
          /\ warned' = IF futures[k].exc # "None"
                       THEN warned \cup { <<attr_name, batch[k]>> } ELSE warned
          /\ UNCHANGED pc
  /\ UNCHANGED <<restVars, configVars, raised, chunk_size, disk, batch, attr_name, max_workers, calls, detectorVars>>

\* calculate_partial_hashes_parallel / calculate_full_hashes_parallel called
\* directly: the executor has shut down and the call returns
RunnerReturn ==
  /\ pc = "direct"
  /\ AllCollected
  /\ pc' = "returned"
  /\ UNCHANGED <<restVars, configVars, raised, chunk_size, disk, files, batch, attr_name, max_workers, futures, calls, warned,
                 detectorVars>>

\* ------------------------------------------------ find_duplicates_optimized
\* one call progress_callback(message, processed, total)
notification(msg, processed, total) == <<msg, processed, total>>

\* the calls of progress_callback from the entry of find_duplicates_optimized
\* up to the call of the partial runner, or up to an early return
call_notifications ==
  IF files = <<>> THEN << notification("No files to process", 0, 0) >>
  ELSE IF collect_size_candidates(Indices(files)) = <<>>
  THEN << notification("Grouping by size", Len(files), Len(files)),
          notification("No duplicate size candidates found", 0, Len(files)) >>
  ELSE << notification("Grouping by size", Len(files), Len(files)) >>

\* the calls of progress_callback from the return of the partial runner up
\* to the call of the full runner, or up to an early return
partial_notifications ==
  LET n == Len(size_candidates)
      stage == << notification("Computing partial hashes", n, n),
                  notification("Grouping by partial hash",
                               Len(files_with_partial(size_candidates)), n) >>
  IN IF collect_partial_candidates(size_candidates) = <<>>
     THEN Append(stage, notification("No partial hash matches found", 0, n))
     ELSE stage

\* full_notifications with "Completed" reporting len(files) as processed
full_notifications_counts_files ==
  LET n == Len(partial_candidates)
  IN << notification("Computing full hashes", n, n),
        notification("Final grouping", Len(files_with_full(partial_candidates)), n),
        notification("Completed", Len(files), Len(files)) >>

\* the calls of progress_callback from the return of the full runner on
full_notifications ==
  LET n == Len(partial_candidates)
  IN << notification("Computing full hashes", n, n),
        notification("Final grouping", Len(files_with_full(partial_candidates)), n),
        notification("Completed",
                     Len(collect_full_hash_duplicates(partial_candidates)), Len(files)) >>

\* entry up to the call of hasher.calculate_partial_hashes_parallel
Call ==
  /\ pc = "idle"
  /\ progress' = progress \o call_notifications
  /\ LET cands == collect_size_candidates(Indices(files))
     IN IF cands = <<>>
        THEN /\ pc' = "done"
             /\ UNCHANGED <<size_candidates, batch, attr_name, futures>>
        ELSE /\ size_candidates' = cands
             /\ batch' = cands
             /\ attr_name' = "partial_hash"
             /\ futures' = submit_all(cands)
             /\ pc' = "partial_hashing"
  /\ UNCHANGED <<restVars, configVars, raised, chunk_size, disk, files, max_workers, calls, warned, partial_candidates,
                 duplicate_groups>>

\* PartialStageDone without "if not partial_candidates: return []"
PartialStageDone_no_early_return ==
  /\ pc = "partial_hashing"
  /\ AllCollected
  /\ progress' = progress \o partial_notifications
  /\ partial_candidates' = collect_partial_candidates(size_candidates)
  /\ batch' = partial_candidates'
  /\ attr_name' = "full_hash"
  /\ futures' = submit_all(partial_candidates')
  /\ pc' = "full_hashing"
  /\ UNCHANGED <<restVars, configVars, raised, chunk_size, disk, files, max_workers, calls, warned,
                 size_candidates, duplicate_groups>>

\* the partial runner returned: rest of _collect_partial_candidates, then
\* _collect_full_hash_duplicates up to the call of calculate_full_hashes_parallel
PartialStageDone ==
  /\ pc = "partial_hashing"
  /\ AllCollected
  /\ progress' = progress \o partial_notifications
  /\ LET cands == collect_partial_candidates(size_candidates)
     IN IF cands = <<>>
        THEN /\ pc' = "done"
             /\ UNCHANGED <<partial_candidates, batch, attr_name, futures>>
        ELSE /\ partial_candidates' = cands
             /\ batch' = cands
             /\ attr_name' = "full_hash"
             /\ futures' = submit_all(cands)
             /\ pc' = "full_hashing"
  /\ UNCHANGED <<restVars, configVars, raised, chunk_size, disk, files, max_workers, calls, warned, size_candidates,
                 duplicate_groups>>

\* the full runner returned: rest of _collect_full_hash_duplicates, "Completed"
FullStageDone ==
  /\ pc = "full_hashing"
  /\ AllCollected
  /\ duplicate_groups' = collect_full_hash_duplicates(partial_candidates)
  /\ progress' = progress \o full_notifications
  /\ pc' = "done"
  /\ UNCHANGED <<restVars, configVars, raised, chunk_size, disk, files, batch, attr_name, max_workers, futures, calls,
                 warned, size_candidates, partial_candidates>>

\* a progress_callback that raises: the detector calls it unguarded, so the
\* exception of the j-th pending call leaves find_duplicates_optimized at once
pending_notifications ==
  IF pc = "idle" THEN call_notifications
  ELSE IF pc = "partial_hashing" THEN partial_notifications
  ELSE full_notifications

SinkRaises ==
  /\ \/ pc = "idle"
     \/ pc \in {"partial_hashing", "full_hashing"} /\ AllCollected
  /\ \E j \in 1..Len(pending_notifications) :
       progress' = progress \o SubSeq(pending_notifications, 1, j)
  /\ pc' = "raised"
  /\ UNCHANGED <<restVars, configVars, raised, chunk_size, disk, files, runnerVars, calls, warned, size_candidates,
                 partial_candidates, duplicate_groups>>

\* ------------------------------------------- MainView._on_start_scan_clicked
\* _compute_hashes: for each file, partial_hash then full_hash are assigned
\* from the single-file hash calls; an exception of either call is logged and
\* the loop goes on.  outcome[f] says which call of file f raised, if any.
ScanOutcomes == {"ok", "partial_raised", "full_raised"}

compute_hashes(outcome) ==
  [ f \in DOMAIN files |->
      IF outcome[f] = "partial_raised" THEN files[f]
      ELSE IF outcome[f] = "full_raised"
      THEN [ files[f] EXCEPT !.partial_hash = calculate_partial_hash(disk[files[f].path]) ]
      ELSE [ files[f] EXCEPT
               !.partial_hash = calculate_partial_hash(disk[files[f].path]),
               !.full_hash = calculate_full_hash(disk[files[f].path]) ] ]

\* the scan button's handler up to the return of _compute_hashes (with no
\* collected file it shows "No files found" and returns)
ComputeHashes ==
  /\ pc = "idle"
  /\ IF files = <<>>
     THEN /\ pc' = "scan_done"
          /\ UNCHANGED <<files, calls>>
     ELSE /\ pc' = "hashes_computed"
          /\ \E outcome \in [ DOMAIN files -> ScanOutcomes ] :
               /\ files' = compute_hashes(outcome)
               /\ calls' = [ a \in Attrs |-> [ f \in DOMAIN files |->
                               IF a = "full_hash" /\ outcome[f] = "partial_raised"
                               THEN calls[a][f] ELSE calls[a][f] + 1 ] ]
  /\ UNCHANGED <<restVars, configVars, raised, chunk_size, disk, runnerVars, warned, detectorVars>>

\* the handler's call detector.find_duplicates(files_with_hashes)
FindDuplicates ==
  /\ pc = "hashes_computed"
  /\ duplicate_groups' = find_duplicates(Indices(files))
  /\ pc' = "scan_done"
  /\ UNCHANGED <<restVars, configVars, raised, chunk_size, disk, files, runnerVars, calls, warned, size_candidates,
                 partial_candidates, progress>>

\* ------------------------------------------------------------ initial states
\* Hasher() as the main view and the tests build it: sha256, and the chunk
\* size of the detector's runs; the configuration in use has the default
\* parallel_workers
\* DeleteResult(): the dataclass defaults (backup_directory is not modelled)
DeleteResult ==
  [ deleted_files |-> <<>>, failed_files |-> <<>>,
    total_deleted |-> 0, total_failed |-> 0, space_saved |-> 0 ]

\* the results view as ResultsView.__init__ leaves it, no delete_files call
\* under way, and the records of the list as they are passed in
ViewAndDeleterIdle ==
  /\ selected_files = {}
  /\ delete_button_disabled = TRUE
  /\ backup_dir = {}
  /\ result = DeleteResult
  /\ index = 0
  /\ given_files = files

DefaultHasher ==
  /\ hash_algorithm = "sha256"
  /\ parallel_workers = DefaultParallelWorkers
  /\ raised = NoException
  /\ chunk_size = ChunkSize

\* the input lists: up to MaxFiles records, one path each, at most MaxStale of
\* them with fingerprints left by an earlier scan of other content.  The
\* detector and the runner treat the records of a list alike, so the lists
\* are taken up to permutation: contents in the order of SampleContents.
RECURSIVE ContentLists(_, _)
ContentLists(n, lowest) ==
  IF n = 0 THEN { <<>> }
  ELSE UNION { { <<c>> \o rest : rest \in ContentLists(n - 1, c) }
               : c \in lowest..Len(SampleContents) }

StaleSets(n) == { S \in SUBSET (1..n) : Cardinality(S) <= MaxStale }

InitFiles(longest) ==
  \E n \in 0..longest : \E contents \in ContentLists(n, 1) :
    \E S \in StaleSets(n) : \E old \in [ S -> 1..Len(SampleContents) ] :
      /\ disk = [ p \in 1..n |-> SampleContents[contents[p]] ]
      /\ files = [ p \in 1..n |->
                     FileMeta(p, SampleContents[contents[p]],
                              IF p \in S THEN old[p] ELSE 0) ]
      /\ calls = [ a \in Attrs |-> [ p \in 1..n |-> 0 ] ]
      /\ warned = {}
      /\ size_candidates = <<>>
      /\ partial_candidates = <<>>
      /\ duplicate_groups = <<>>
      /\ progress = <<>>

Init ==
  /\ DefaultHasher
  /\ InitFiles(MaxFiles)
  /\ pc = "idle"
  /\ ViewAndDeleterIdle
  /\ batch = <<>>
  /\ attr_name = "partial_hash"
  /\ max_workers = DefaultMaxWorkers
  /\ futures = <<>>

Next ==
  \/ Call
  \/ ComputeHashes
  \/ FindDuplicates
  \/ \E k \in 1..Len(futures) : TaskStart(k)
  \/ \E k \in 1..Len(futures) : TaskSucceed(k)
  \/ \E k \in 1..Len(futures) : TaskFail(k)
  \/ \E k \in 1..Len(futures) : Collect(k)
  \/ PartialStageDone
  \/ FullStageDone

Spec == Init /\ [][Next]_vars

\* the same runs with a progress_callback that may raise
NextSink ==
  \/ Next
  \/ SinkRaises

SpecSink == Init /\ [][NextSink]_vars

\* a direct call calculate_<attr>_hashes_parallel(files, max_workers)
InitRunner ==
  /\ DefaultHasher
  /\ InitFiles(MaxBatch)
  /\ pc = "direct"
  /\ ViewAndDeleterIdle
  /\ batch = Indices(files)
  /\ attr_name \in Attrs
  /\ max_workers \in 1..MaxWorkersArg
  /\ futures = submit_all(batch)

NextRunner ==
  \/ \E k \in 1..Len(futures) : TaskStart(k)
  \/ \E k \in 1..Len(futures) : TaskSucceed(k)
  \/ \E k \in 1..Len(futures) : TaskFail(k)
  \/ \E k \in 1..Len(futures) : Collect(k)
  \/ RunnerReturn

SpecRunner == InitRunner /\ [][NextRunner]_vars

\* ------------------------------------------------- runs under fair scheduling
\* find_duplicates_optimized about to be called, or one of the two *_parallel
\* methods called directly with any worker count
InitFair ==
  /\ DefaultHasher
  /\ InitFiles(MaxBatch)
  /\ ViewAndDeleterIdle
  /\ attr_name \in Attrs
  /\ \/ /\ pc = "idle"
        /\ attr_name = "partial_hash"
        /\ batch = <<>>
        /\ max_workers = DefaultMaxWorkers
        /\ futures = <<>>
     \/ /\ pc = "direct"
        /\ batch = Indices(files)
        /\ max_workers \in 1..MaxWorkersArg
        /\ futures = submit_all(batch)

NextFair ==
  \/ Call
  \/ \E k \in 1..Len(futures) : TaskStart(k)
  \/ \E k \in 1..Len(futures) : TaskSucceed(k)
  \/ \E k \in 1..Len(futures) : TaskFail(k)
  \/ \E k \in 1..Len(futures) : Collect(k)
  \/ PartialStageDone
  \/ FullStageDone
  \/ RunnerReturn

\* the coordinating thread runs on; an idle pool thread takes a queued work
\* item; every single-file hash call returns or raises
Fairness ==
  /\ WF_vars(Call \/ PartialStageDone \/ FullStageDone \/ RunnerReturn
               \/ \E k \in 1..Len(futures) : Collect(k))
  /\ WF_vars(\E k \in 1..Len(futures) : TaskStart(k))
  /\ WF_vars(\E k \in 1..Len(futures) : TaskSucceed(k) \/ TaskFail(k))

SpecFair == InitFair /\ [][NextFair]_vars /\ Fairness

\* ---------------------------------------------------- overlapping folders
\* _collect_files walks every selected folder; when one selected folder lies
\* inside another, the files below the inner one are listed twice, each time
\* as a new FileMeta with the same path, size and modified_time.  The outer
\* walk lists the files 1..m, the inner walk lists those of S again.
InitOverlap ==
  /\ DefaultHasher
  /\ \E m \in 1..MaxWalk : \E contents \in ContentLists(m, 1) : \E S \in SUBSET (1..m) :
       LET paths == [ p \in 1..m |-> p ] \o SelectSeq([ p \in 1..m |-> p ], LAMBDA p : p \in S)
           on_disk == [ p \in 1..m |-> SampleContents[contents[p]] ]
       IN /\ disk = on_disk
          /\ files = [ i \in 1..Len(paths) |-> FileMeta(paths[i], on_disk[paths[i]], 0) ]
          /\ calls = [ a \in Attrs |-> [ i \in 1..Len(paths) |-> 0 ] ]
  /\ pc = "idle"
  /\ ViewAndDeleterIdle
  /\ batch = <<>>
  /\ attr_name = "partial_hash"
  /\ max_workers = DefaultMaxWorkers
  /\ futures = <<>>
  /\ warned = {}
  /\ size_candidates = <<>>
  /\ partial_candidates = <<>>
  /\ duplicate_groups = <<>>
  /\ progress = <<>>

SpecOverlap == InitOverlap /\ [][Next]_vars

\* ------------------------------------------------- files of mixed sizes
\* a folder with files of exactly 2 * ChunkSize bytes, which the partial hash
\* reads whole, beside longer files, of which it reads the first and the last
\* chunk
MixedContents == << <<0, 0>>, <<1, 0>>, <<0, 0, 0>>, <<0, 1, 0>> >>

InitMixed ==
  /\ DefaultHasher
  /\ \E n \in 0..MaxFiles : \E contents \in [ 1..n -> 1..Len(MixedContents) ] :
       /\ \A p \in 1..(n - 1) : contents[p] <= contents[p + 1]
       /\ disk = [ p \in 1..n |-> MixedContents[contents[p]] ]
       /\ files = [ p \in 1..n |-> FileMeta(p, MixedContents[contents[p]], 0) ]
       /\ calls = [ a \in Attrs |-> [ p \in 1..n |-> 0 ] ]
  /\ pc = "idle"
  /\ ViewAndDeleterIdle
  /\ batch = <<>>
  /\ attr_name = "partial_hash"
  /\ max_workers = DefaultMaxWorkers
  /\ futures = <<>>
  /\ warned = {}
  /\ size_candidates = <<>>
  /\ partial_candidates = <<>>
  /\ duplicate_groups = <<>>
  /\ progress = <<>>

SpecMixed == InitMixed /\ [][Next]_vars

\* ------------------------------------------------------- a configured run
\* Hasher(config=ScanConfig(parallel_workers=w)): __init__ copies chunk_size
\* and hash_algorithm of the configuration, and the detector calls the two
\* *_parallel methods without max_workers
InitConfig ==
  /\ hash_algorithm = "sha256"
  /\ parallel_workers \in 1..MaxConfigured
  /\ raised = NoException
  /\ chunk_size = ChunkSize
  /\ InitFiles(MaxBatch)
  /\ pc = "idle"
  /\ ViewAndDeleterIdle
  /\ batch = <<>>
  /\ attr_name = "partial_hash"
  /\ max_workers = DefaultMaxWorkers
  /\ futures = <<>>

SpecConfig == InitConfig /\ [][Next]_vars

\* ------------------------------------- hand-built records, mocked hasher
\* The detector's tests build FileMeta objects by hand, with any size and any
\* fingerprints (None included), and pass them to find_duplicates, or to
\* find_duplicates_optimized together with a Mock(spec=Hasher) whose two
\* *_parallel methods return without touching a record.
Fingerprints == {None} \cup (1..MaxFingerprint)

RecordFields == [ size : 1..MaxSize, partial_hash : Fingerprints, full_hash : Fingerprints ]

Zeros(n) == [ i \in 1..n |-> 0 ]

\* the detector treats the records of a list alike, so the hand-built lists
\* are taken up to permutation: in the order of RecordCode
RecordCode(r) == (r.full_hash + 1) * 100 + (r.partial_hash + 1) * 10 + r.size

InitMock ==
  /\ DefaultHasher
  /\ \E n \in 0..MaxFiles : \E r \in [ 1..n -> RecordFields ] :
       /\ \A p \in 1..(n - 1) : RecordCode(r[p]) <= RecordCode(r[p + 1])
       /\ disk = [ p \in 1..n |-> Zeros(r[p].size) ]
       /\ files = [ p \in 1..n |->
                      [ path |-> p, size |-> r[p].size, modified_time |-> st_mtime(p),
                        partial_hash |-> r[p].partial_hash,
                        full_hash |-> r[p].full_hash ] ]
       /\ calls = [ a \in Attrs |-> [ p \in 1..n |-> 0 ] ]
  /\ pc \in {"idle", "hashes_computed"}
  /\ ViewAndDeleterIdle
  /\ batch = <<>>
  /\ attr_name = "partial_hash"
  /\ max_workers = DefaultMaxWorkers
  /\ futures = <<>>
  /\ warned = {}
  /\ size_candidates = <<>>
  /\ partial_candidates = <<>>
  /\ duplicate_groups = <<>>
  /\ progress = <<>>

\* the mocked calculate_partial_hashes_parallel / calculate_full_hashes_parallel
\* returns: no task ran, no record was written
MockHasherReturn ==
  /\ pc \in {"partial_hashing", "full_hashing"}
  /\ ~AllCollected
  /\ futures' = [ k \in 1..Len(futures) |-> [ NoFuture EXCEPT !.st = "collected" ] ]
  /\ UNCHANGED <<restVars, configVars, raised, chunk_size, disk, files, pc, batch, attr_name, max_workers, calls, warned,
                 detectorVars>>

NextMock ==
  \/ Call
  \/ MockHasherReturn
  \/ PartialStageDone
  \/ FullStageDone
  \/ FindDuplicates

SpecMock == InitMock /\ [][NextMock]_vars

\* ------------------------------------------------- DuplicateGroup by itself
\* the files of S in list order
ListOf(S) == SelectSeq(Indices(files), LAMBDA f : f \in S)

InitGroup ==
  /\ DefaultHasher
  /\ InitFiles(MaxBatch)
  /\ pc = "model"
  /\ ViewAndDeleterIdle
  /\ batch = <<>>
  /\ attr_name = "partial_hash"
  /\ max_workers = DefaultMaxWorkers
  /\ futures = <<>>

\* DuplicateGroup(files=..., total_size=...) called with any list of records
\* and with or without a total_size
NewDuplicateGroup ==
  /\ pc = "model"
  /\ \E S \in SUBSET (DOMAIN files) : \E total \in {None} \cup (0..MaxTotal) :
       duplicate_groups' = << DuplicateGroup(ListOf(S), total) >>
  /\ pc' = "constructed"
  /\ UNCHANGED <<restVars, configVars, raised, chunk_size, disk, files, runnerVars, calls, warned, size_candidates,
                 partial_candidates, progress>>

NextGroup == NewDuplicateGroup

SpecGroup == InitGroup /\ [][NextGroup]_vars

\* ----------------------------------------------------------------- deleter
\* The files the deleter is asked to move, by path: "x/a", "y/a", "x/a_1" and
\* "x/b" (all with the same suffix).  A file name is the sequence of its stem
\* followed by the counters appended to it: <<1>> is "a", <<1, 1>> is "a_1",
\* <<2>> is "b"; "a_1" is both the name of the third file and the name that
\* _get_unique_filename makes from "a" with counter 1.
PathNames == << <<1>>, <<1>>, <<1, 1>>, <<2>> >>

\* FileMeta.size of the record of each path
PathSizes == << 1, 2, 1, 2 >>

\* Path(file_meta.path).name
name_of(path) == PathNames[path]

\* the names present in a directory
names_in(dir) == { e.name : e \in dir }

\* _get_unique_filename taking the plain name without looking
get_unique_filename_unchecked(dir, name) == name

\* the while loop of _get_unique_filename: f"{stem}_{counter}{suffix}"
RECURSIVE unique_filename_loop(_, _, _, _)
unique_filename_loop(dir, stem, counter, dest_path) ==
  IF dest_path \in names_in(dir)
  THEN unique_filename_loop(dir, stem, counter + 1, Append(stem, counter))
  ELSE dest_path

\* _get_unique_filename(backup_dir, original_path)
get_unique_filename(dir, name) ==
  IF name \notin names_in(dir) THEN name
  ELSE unique_filename_loop(dir, name, 1, name)

\* shutil.move(src, dst) on the backup directory: the file at dst, if there
\* is one, is replaced
move(dir, src, dst) ==
  { e \in dir : e.name # dst } \cup { [ name |-> dst, from |-> src ] }

\* the errors shutil.move raises
MoveErrors == {"FileNotFoundError", "PermissionError"}

\* the selected records, the files on disk (some already gone), and a backup
\* directory that may hold files of an earlier call of the same second
\* (mkdir(parents=True, exist_ok=True)); from = 0 marks those
InitDeleter ==
  /\ DefaultHasher
  /\ \E n \in 0..MaxDelete : \E paths \in [ 1..n -> 1..Len(PathNames) ] :
       files = [ i \in 1..n |-> FileMeta(paths[i], Zeros(PathSizes[paths[i]]), 0) ]
  /\ \E gone \in SUBSET (1..Len(PathNames)) :
       disk = [ q \in 1..Len(PathNames) |->
                  IF q \in gone THEN Missing ELSE Zeros(PathSizes[q]) ]
  /\ \E present \in SUBSET { <<1>>, <<1, 1>> } :
       backup_dir = { [ name |-> nm, from |-> 0 ] : nm \in present }
  /\ pc = "selected"
  /\ selected_files = {}
  /\ delete_button_disabled = TRUE
  /\ result = DeleteResult
  /\ index = 0
  /\ given_files = files
  /\ calls = [ a \in Attrs |-> [ i \in DOMAIN files |-> 0 ] ]
  /\ batch = <<>>
  /\ attr_name = "partial_hash"
  /\ max_workers = DefaultMaxWorkers
  /\ futures = <<>>
  /\ warned = {}
  /\ size_candidates = <<>>
  /\ partial_candidates = <<>>
  /\ duplicate_groups = <<>>
  /\ progress = <<>>

scanVars == <<configVars, raised, chunk_size, runnerVars, calls, warned,
              size_candidates, partial_candidates>>

\* delete_files up to the loop: an empty list returns the empty result
DeleteFiles ==
  /\ pc = "selected"
  /\ result' = DeleteResult
  /\ index' = 0
  /\ pc' = IF files = <<>> THEN "deleted" ELSE "deleting"
  /\ UNCHANGED <<scanVars, duplicate_groups, given_files, viewVars, disk, files, backup_dir, progress>>

\* the except branch of the loop body
move_failed(r, path, e) ==
  [ r EXCEPT !.failed_files = Append(@, <<path, e>>),
             !.total_failed = @ + 1 ]

\* the try branch of the loop body after shutil.move returned
move_done(r, file_meta) ==
  [ r EXCEPT !.deleted_files = Append(@, file_meta.path),
             !.total_deleted = @ + 1,
             !.space_saved = @ + file_meta.size ]

\* MoveFile leaving the loop at the first file that cannot be moved
MoveFile_stops_on_failure ==
  /\ pc = "deleting"
  /\ index < Len(files)
  /\ LET file_meta == files[index + 1]
         dest_path == get_unique_filename(backup_dir, name_of(file_meta.path))
     IN \E e \in {"None"} \cup MoveErrors :
          /\ disk[file_meta.path] = Missing => e = "FileNotFoundError"
          /\ disk[file_meta.path] # Missing => e # "FileNotFoundError"
          /\ IF e = "None"
             THEN /\ backup_dir' = move(backup_dir, file_meta.path, dest_path)
                  /\ disk' = [ disk EXCEPT ![file_meta.path] = Missing ]
                  /\ result' = move_done(result, file_meta)
                  /\ index' = index + 1
             ELSE /\ result' = move_failed(result, file_meta.path, e)
                  /\ index' = Len(files)
                  /\ UNCHANGED <<backup_dir, disk>>
          /\ progress' = Append(progress, <<file_meta.path, index + 1, Len(files)>>)
  /\ UNCHANGED <<scanVars, duplicate_groups, given_files, viewVars, files, pc>>

\* one turn of the loop of delete_files: the file is moved under a name free
\* in the backup directory, or the move raises (the source is gone, or the
\* move is refused) and the failure is recorded; then progress_callback
MoveFile ==
  /\ pc = "deleting"
  /\ index < Len(files)
  /\ LET file_meta == files[index + 1]
         dest_path == get_unique_filename(backup_dir, name_of(file_meta.path))
     IN \E e \in {"None"} \cup MoveErrors :
          /\ disk[file_meta.path] = Missing => e = "FileNotFoundError"
          /\ disk[file_meta.path] # Missing => e # "FileNotFoundError"
          /\ IF e = "None"
             THEN /\ backup_dir' = move(backup_dir, file_meta.path, dest_path)
                  /\ disk' = [ disk EXCEPT ![file_meta.path] = Missing ]
                  /\ result' = move_done(result, file_meta)
             ELSE /\ result' = move_failed(result, file_meta.path, e)
                  /\ UNCHANGED <<backup_dir, disk>>
          /\ index' = index + 1
          /\ progress' = Append(progress, <<file_meta.path, index + 1, Len(files)>>)
  /\ UNCHANGED <<scanVars, duplicate_groups, given_files, viewVars, files, pc>>

\* the loop is over: return result
DeleteFilesReturn ==
  /\ pc = "deleting"
  /\ index = Len(files)
  /\ pc' = "deleted"
  /\ UNCHANGED <<scanVars, duplicate_groups, given_files, viewVars, deleterVars, disk, files, progress>>

NextDeleter ==
  \/ DeleteFiles
  \/ MoveFile
  \/ DeleteFilesReturn

SpecDeleter == InitDeleter /\ [][NextDeleter]_vars

\* ------------------------------------------------------------- results view
\* FileMeta.__hash__ / __eq__: a set of FileMeta holds a record by its path,
\* size and modified_time
key(file) == <<file.path, file.size, file.modified_time>>

\* _update_delete_button: the value delete_button.disabled has afterwards
update_delete_button(selected) == Cardinality(selected) = 0

\* the first lines of toggle_file_selection
toggle_file_selection(selected, file) ==
  IF key(file) \in selected THEN selected \ { key(file) }
  ELSE selected \cup { key(file) }

\* sorted(group.files, key=lambda f: f.modified_time)[0]: sorted is stable, so
\* the first file of the list among those with the least modified_time
oldest(group_files) ==
  LET i == CHOOSE i \in DOMAIN group_files :
             /\ \A j \in DOMAIN group_files :
                  files[group_files[i]].modified_time <= files[group_files[j]].modified_time
             /\ \A j \in 1..(i - 1) :
                  files[group_files[j]].modified_time > files[group_files[i]].modified_time
  IN files[group_files[i]]

\* sorted(...)[-1]: the last file of the list among those with the greatest
\* modified_time
newest(group_files) ==
  LET i == CHOOSE i \in DOMAIN group_files :
             /\ \A j \in DOMAIN group_files :
                  files[group_files[i]].modified_time >= files[group_files[j]].modified_time
             /\ \A j \in (i + 1)..Len(group_files) :
                  files[group_files[j]].modified_time < files[group_files[i]].modified_time
  IN files[group_files[i]]

\* select_all_duplicates keeping the newest file of each group
select_all_duplicates_keeps_newest(groups) ==
  UNION { { key(files[groups[g].files[i]]) : i \in
              { i \in DOMAIN groups[g].files :
                  key(files[groups[g].files[i]]) # key(newest(groups[g].files)) } }
          : g \in { g \in DOMAIN groups : Len(groups[g].files) >= 2 } }

\* the loop of select_all_duplicates: of every group with two or more files,
\* the files that are != original
select_all_duplicates(groups) ==
  UNION { { key(files[groups[g].files[i]]) : i \in
              { i \in DOMAIN groups[g].files :
                  key(files[groups[g].files[i]]) # key(oldest(groups[g].files)) } }
          : g \in { g \in DOMAIN groups : Len(groups[g].files) >= 2 } }

\* The records of a scan, with any modification times: record i is the file
\* at paths[i]; a path listed twice (overlapping folders) gives two equal
\* records.  Paths are numbered in the order of their first record.
InitView ==
  /\ DefaultHasher
  /\ \E n \in 0..MaxFiles : \E paths \in [ 1..n -> 1..n ] :
       \E times \in [ { paths[i] : i \in 1..n } -> 1..MaxTime ] :
         /\ \A i \in 1..n : paths[i] <= 1 + Cardinality({ paths[j] : j \in 1..(i - 1) })
         /\ \A i \in 1..(n - 1) : paths[i] <= paths[i + 1]
         /\ files = [ i \in 1..n |->
                        [ path |-> paths[i], size |-> 1, modified_time |-> times[paths[i]],
                          partial_hash |-> None, full_hash |-> None ] ]
         /\ disk = [ q \in { paths[i] : i \in 1..n } |-> Zeros(1) ]
  /\ pc = "view"
  /\ ViewAndDeleterIdle
  /\ calls = [ a \in Attrs |-> [ i \in DOMAIN files |-> 0 ] ]
  /\ batch = <<>>
  /\ attr_name = "partial_hash"
  /\ max_workers = DefaultMaxWorkers
  /\ futures = <<>>
  /\ warned = {}
  /\ size_candidates = <<>>
  /\ partial_candidates = <<>>
  /\ duplicate_groups = <<>>
  /\ progress = <<>>

\* the lists of groups a scan hands to the view: up to MaxGroups groups of one
\* or more records, no record in two groups, and the records of one path (they
\* have the same content) not in different groups
GroupLists ==
  { at_least_one :
      at_least_one \in
        { SelectSeq([ g \in 1..MaxGroups |-> SelectSeq(Indices(files), LAMBDA f : of[f] = g) ],
                    LAMBDA members : members # <<>>)
          : of \in { of \in [ DOMAIN files -> 0..MaxGroups ] :
                       \A f, h \in DOMAIN files :
                         files[f].path = files[h].path =>
                           of[f] = of[h] \/ of[f] = 0 \/ of[h] = 0 } } }

\* set_duplicate_groups(groups): _update_groups_list clears the selection and
\* updates the delete button
SetDuplicateGroups ==
  /\ pc \in {"view", "all_selected"}
  /\ \E groups \in GroupLists :
       duplicate_groups' = [ g \in DOMAIN groups |-> DuplicateGroup(groups[g], None) ]
  /\ selected_files' = {}
  /\ delete_button_disabled' = update_delete_button(selected_files')
  /\ pc' = "view"
  /\ UNCHANGED <<scanVars, given_files, deleterVars, disk, files, progress>>

\* toggle_file_selection(file), from a checkbox or called directly
ToggleFileSelection(f) ==
  /\ pc \in {"view", "all_selected"}
  /\ selected_files' = toggle_file_selection(selected_files, files[f])
  /\ delete_button_disabled' = update_delete_button(selected_files')
  /\ pc' = "view"
  /\ UNCHANGED <<scanVars, duplicate_groups, given_files, deleterVars, disk, files, progress>>

\* ClearSelection without the call of _update_delete_button
ClearSelection_no_button_update ==
  /\ pc \in {"view", "all_selected"}
  /\ selected_files' = {}
  /\ pc' = "view"
  /\ UNCHANGED <<scanVars, duplicate_groups, given_files, deleterVars, disk, files, progress,
                 delete_button_disabled>>

\* clear_selection: returns at once when nothing is selected
ClearSelection ==
  /\ pc \in {"view", "all_selected"}
  /\ IF selected_files = {}
     THEN UNCHANGED viewVars
     ELSE /\ selected_files' = {}
          /\ delete_button_disabled' = update_delete_button(selected_files')
  /\ pc' = "view"
  /\ UNCHANGED <<scanVars, duplicate_groups, given_files, deleterVars, disk, files, progress>>

\* select_all_duplicates, from its button or called directly
SelectAllDuplicates ==
  /\ pc \in {"view", "all_selected"}
  /\ selected_files' = select_all_duplicates(duplicate_groups)
  /\ delete_button_disabled' = update_delete_button(selected_files')
  /\ pc' = "all_selected"
  /\ UNCHANGED <<scanVars, duplicate_groups, given_files, deleterVars, disk, files, progress>>

NextView ==
  \/ SetDuplicateGroups
  \/ \E f \in DOMAIN files : ToggleFileSelection(f)
  \/ ClearSelection
  \/ SelectAllDuplicates

SpecView == InitView /\ [][NextView]_vars

\* ------------------------------------------------- single-file hash calls
\* every file content of up to n bytes
RECURSIVE ByteSeqs(_)
ByteSeqs(n) ==
  IF n = 0 THEN { <<>> }
  ELSE LET shorter == ByteSeqs(n - 1)
       IN shorter \cup { Append(c, b) : c \in { x \in shorter : Len(x) = n - 1 },
                                        b \in Bytes }

\* Hasher(chunk_size, hash_algorithm) about to be constructed, with any chunk
\* size and any algorithm name, and one file of any content
InitHasher ==
  /\ hash_algorithm \in Algorithms
  /\ parallel_workers = DefaultParallelWorkers
  /\ raised = NoException
  /\ chunk_size \in 1..MaxChunk
  /\ \E content \in ByteSeqs(MaxLen) :
       /\ disk = << content >>
       /\ files = << FileMeta(1, content, 0) >>
  /\ calls = [ a \in Attrs |-> [ p \in 1..1 |-> 0 ] ]
  /\ pc = "constructing"
  /\ ViewAndDeleterIdle
  /\ batch = <<>>
  /\ attr_name = "partial_hash"
  /\ max_workers = DefaultMaxWorkers
  /\ futures = <<>>
  /\ warned = {}
  /\ size_candidates = <<>>
  /\ partial_candidates = <<>>
  /\ duplicate_groups = <<>>
  /\ progress = <<>>

\* _validate_hash_algorithm
validate_hash_algorithm ==
  hash_algorithm = "xxhash64" \/ hash_algorithm \in algorithms_available

\* Hasher.__init__: the fields are set, then the algorithm is validated
NewHasher ==
  /\ pc = "constructing"
  /\ IF validate_hash_algorithm
     THEN pc' = "single" /\ UNCHANGED raised
     ELSE pc' = "rejected" /\ raised' = [ exc |-> "ValueError", at |-> "__init__" ]
  /\ UNCHANGED <<restVars, configVars, chunk_size, disk, files, runnerVars, calls, warned,
                 detectorVars>>

\* another process deletes the file, at any time
DeleteFile ==
  /\ pc \in {"single", "checked"}
  /\ raised = NoException
  /\ \E p \in DOMAIN disk :
       /\ disk[p] # Missing
       /\ disk' = [ disk EXCEPT ![p] = Missing ]
  /\ UNCHANGED <<restVars, configVars, raised, chunk_size, files, pc, runnerVars, calls, warned,
                 detectorVars>>

\* calculate_partial_hash(path) or calculate_full_hash(path) up to its
\* "if not path.exists(): raise FileNotFoundError"; batch holds the record
\* whose path the call was given, attr_name the field the caller will assign
ExistsCheck ==
  /\ pc = "single"
  /\ raised = NoException
  /\ \E f \in DOMAIN files : \E attr \in Attrs :
       /\ IF attr = "partial_hash" THEN files[f].partial_hash = None
          ELSE files[f].full_hash = None
       /\ batch' = << f >>
       /\ attr_name' = attr
       /\ IF disk[files[f].path] = Missing
          THEN /\ raised' = [ exc |-> "FileNotFoundError", at |-> "exists" ]
               /\ UNCHANGED pc
          ELSE /\ pc' = "checked"
               /\ UNCHANGED raised
  /\ UNCHANGED <<restVars, configVars, chunk_size, disk, files, max_workers, futures, calls, warned,
                 detectorVars>>

\* the exception that leaves the try block of calculate_partial_hash: every
\* OSError of stat, open, read or seek is caught and raised again as OSError
\* (a FileNotFoundError of stat or open too); the TypeError of a hexdigest()
\* that needs a length is not caught
partial_hash_raises(content, seek_ok) ==
  IF content = Missing THEN [ exc |-> "OSError", at |-> "stat" ]
  ELSE IF Len(content) > 2 * chunk_size /\ ~seek_ok
  THEN [ exc |-> "OSError", at |-> "seek" ]
  ELSE IF hash_algorithm \in VariableLength
  THEN [ exc |-> "TypeError", at |-> "hexdigest" ]
  ELSE NoException

\* the same for calculate_full_hash, which does not seek
full_hash_raises(content) ==
  IF content = Missing THEN [ exc |-> "OSError", at |-> "open" ]
  ELSE IF hash_algorithm \in VariableLength
  THEN [ exc |-> "TypeError", at |-> "hexdigest" ]
  ELSE NoException

\* file.partial_hash = hasher.calculate_partial_hash(file.path), after the
\* exists() check; the backward seek may be refused by the file system
CalculatePartialHash ==
  /\ pc = "checked"
  /\ attr_name = "partial_hash"
  /\ LET f == batch[1]
         content == disk[files[f].path]
     IN \E seek_ok \in BOOLEAN :
          /\ raised' = partial_hash_raises(content, seek_ok)
          /\ files' = IF raised' = NoException
                      THEN [ files EXCEPT ![f].partial_hash = calculate_partial_hash(content) ]
                      ELSE files
          /\ calls' = count_call("partial_hash", f)
  /\ pc' = "single"
  /\ UNCHANGED <<restVars, configVars, chunk_size, disk, runnerVars, warned, detectorVars>>

\* file.full_hash = hasher.calculate_full_hash(file.path), after the exists()
\* check
CalculateFullHash ==
  /\ pc = "checked"
  /\ attr_name = "full_hash"
  /\ LET f == batch[1]
         content == disk[files[f].path]
     IN /\ raised' = full_hash_raises(content)
        /\ files' = IF raised' = NoException
                    THEN [ files EXCEPT ![f].full_hash = calculate_full_hash(content) ]
                    ELSE files
        /\ calls' = count_call("full_hash", f)
  /\ pc' = "single"
  /\ UNCHANGED <<restVars, configVars, chunk_size, disk, runnerVars, warned, detectorVars>>

NextHasher ==
  \/ NewHasher
  \/ DeleteFile
  \/ ExistsCheck
  \/ CalculatePartialHash
  \/ CalculateFullHash

SpecHasher == InitHasher /\ [][NextHasher]_vars

\* ------------------------------------------------------------------ claims
Range(seq) == { seq[i] : i \in DOMAIN seq }
Members(g) == Range(duplicate_groups[g].files)
Groups == DOMAIN duplicate_groups
InSomeGroup(f) == \E g \in Groups : f \in Members(g)
Content(f) == disk[files[f].path]
Failed(a, f) == <<a, f>> \in warned
SizeIsUnique(f) == \A h \in DOMAIN files : h # f => files[h].size # files[f].size
InScanHandler == pc \in {"hashes_computed", "scan_done"}

\* C1: every group returned by find_duplicates_optimized has at least 2
\* members, and no record is a member of two different returned groups.
C1_GroupsPartition ==
  pc = "done" =>
    /\ \A g \in Groups : Len(duplicate_groups[g].files) >= 2
    /\ \A g, h \in Groups : g # h => Members(g) \cap Members(h) = {}

\* C1 witness: a run returned two groups.
C1_TwoGroupsReturned == pc = "done" /\ Len(duplicate_groups) >= 2

\* C2: in every group returned by find_duplicates_optimized all files have
\* the same size, whatever fingerprints the hashing stages left on the records.
C2_SameSizeInGroup ==
  pc = "done" =>
    \A g \in Groups : \A a, b \in Members(g) : files[a].size = files[b].size

\* C3: in every group returned by find_duplicates_optimized all files have
\* the same non-absent partial fingerprint and the same non-absent full
\* fingerprint.
C3_SameFingerprintsInGroup ==
  pc = "done" =>
    \A g \in Groups : \A a, b \in Members(g) :
      /\ files[a].partial_hash # None
      /\ files[a].full_hash # None
      /\ files[a].partial_hash = files[b].partial_hash
      /\ files[a].full_hash = files[b].full_hash

\* C4: when every hashing task of a run succeeded, the returned groups are
\* exactly the classes of records of equal size and equal content that have
\* at least 2 members: identical files share one group, a group holds nothing
\* else, and a file identical to no other file is in no group.
Identical(f) ==
  { h \in DOMAIN files : files[h].size = files[f].size /\ Content(h) = Content(f) }

C4_IdenticalFilesGrouped ==
  (pc = "done" /\ warned = {}) =>
    /\ \A f \in DOMAIN files :
         IF Cardinality(Identical(f)) >= 2
         THEN \E g \in Groups : Members(g) = Identical(f)
         ELSE ~InSomeGroup(f)
    /\ \A g \in Groups : \A f \in Members(g) : Members(g) = Identical(f)
    /\ \A g, h \in Groups : g # h => Members(g) # Members(h)

\* C4 witness: all hashing succeeded, three identical files form a group and
\* a fourth file is in no group.
C4_ThreeIdenticalOneAlone ==
  /\ pc = "done"
  /\ warned = {}
  /\ \E g \in Groups : Cardinality(Members(g)) = 3
  /\ \E f \in DOMAIN files : ~InSomeGroup(f)

\* C5: two files of the same size and the same partial fingerprint whose full
\* fingerprints differ are never in the same group, neither in the result of
\* find_duplicates nor in that of find_duplicates_optimized.
C5_DifferentFullNeverGrouped ==
  pc \in {"done", "scan_done"} =>
    \A g \in Groups : \A a, b \in Members(g) :
      ~ ( /\ files[a].size = files[b].size
          /\ files[a].partial_hash = files[b].partial_hash
          /\ files[a].full_hash # files[b].full_hash )

\* C5 witness: find_duplicates returned while two files agree on size and
\* partial fingerprint and carry different full fingerprints.
C5_SamePartialDifferentFull ==
  /\ pc = "scan_done"
  /\ \E a, b \in DOMAIN files :
       /\ files[a].size = files[b].size
       /\ files[a].partial_hash = files[b].partial_hash
       /\ files[a].partial_hash # None
       /\ files[a].full_hash # None
       /\ files[b].full_hash # None
       /\ files[a].full_hash # files[b].full_hash

\* C6: during find_duplicates_optimized a record whose size is unique in the
\* input is in no list passed to a hashing stage, and neither hash function
\* is ever invoked for it.
C6_UniqueSizeNeverHashed ==
  ~InScanHandler =>
    \A f \in DOMAIN files :
      SizeIsUnique(f) =>
        /\ calls["partial_hash"][f] = 0
        /\ calls["full_hash"][f] = 0
        /\ f \notin Range(batch)
        /\ f \notin Range(size_candidates)
        /\ f \notin Range(partial_candidates)

\* C6 witness: a run that hashed some file returned, and the input holds a
\* record of unique size.
C6_UniqueSizeBesideHashed ==
  /\ pc = "done"
  /\ \E f \in DOMAIN files : SizeIsUnique(f)
  /\ \E h \in DOMAIN files : calls["full_hash"][h] > 0

\* C7: the candidate sets only shrink: what is passed to full hashing is part
\* of what was passed to partial hashing, which is part of the input.
C7_CandidatesNarrow ==
  ~InScanHandler =>
    /\ Range(size_candidates) \subseteq DOMAIN files
    /\ Range(partial_candidates) \subseteq Range(size_candidates)
    /\ Len(size_candidates) <= Len(files)
    /\ Len(partial_candidates) <= Len(size_candidates)
    /\ pc = "partial_hashing" => batch = size_candidates
    /\ pc = "full_hashing" => batch = partial_candidates
    /\ \A f \in DOMAIN files :
         /\ calls["partial_hash"][f] > 0 => f \in Range(size_candidates)
         /\ calls["full_hash"][f] > 0 => f \in Range(partial_candidates)

\* C7 witness: the full hashing stage runs on strictly fewer records than the
\* partial stage, which ran on strictly fewer than the input.
C7_StrictlyNarrower ==
  /\ pc = "full_hashing"
  /\ Len(partial_candidates) < Len(size_candidates)
  /\ Len(size_candidates) < Len(files)

\* C8: find_duplicates_optimized never raises because of per-file failures,
\* and a record whose partial or full hashing failed during the run is passed
\* to no later stage and is in no returned group.
C8_FailedRecordsExcluded ==
  /\ pc # "raised"
  /\ \A f \in DOMAIN files :
       /\ Failed("partial_hash", f) =>
            f \notin Range(partial_candidates) /\ ~InSomeGroup(f)
       /\ Failed("full_hash", f) => ~InSomeGroup(f)

\* C9: when a direct call of calculate_partial_hashes_parallel or
\* calculate_full_hashes_parallel has returned, the field it fills is None on
\* every record whose hashing task failed, whatever the field held before.
Field(f) == IF attr_name = "partial_hash" THEN files[f].partial_hash
            ELSE files[f].full_hash

C9_FailedFieldAbsent ==
  pc = "returned" =>
    \A k \in DOMAIN batch : futures[k].exc # "None" => Field(batch[k]) = None

\* C10: the parallel runner never raises because of a per-file failure, and
\* when it has returned every record whose hash call succeeded holds the value
\* the single-file hash function returns for its path, for every worker count,
\* every completion order and every set of failures of other records.
C10_RunnerKeepsResults ==
  /\ pc # "raised"
  /\ pc = "returned" =>
       \A k \in DOMAIN batch :
         (futures[k].exc = "None" /\ futures[k].error = "None") =>
           Field(batch[k]) = hash_func(attr_name, disk[files[batch[k]].path])

\* C10 witness: a runner call on three records returned with one task failed
\* and two succeeded.
C10_MixedOutcomes ==
  /\ pc = "returned"
  /\ Len(batch) = 3
  /\ Cardinality({ k \in DOMAIN batch : futures[k].exc # "None" }) = 1

Last(seq) == seq[Len(seq)]
Labels(seq) == { seq[i][1] : i \in DOMAIN seq }
StopLabels == {"No files to process", "No duplicate size candidates found",
               "No partial hash matches found"}

\* C11: when the input list is empty or no two input records share a size,
\* find_duplicates_optimized returns an empty list, neither hashing stage is
\* invoked (no task is submitted, no hash function is called), and the
\* progress sink has been notified; for an empty input it was notified
\* exactly once, with ("No files to process", 0, 0).
C11_NoCandidatesNoHashing ==
  (pc = "done" /\ \A f \in DOMAIN files : SizeIsUnique(f)) =>
    /\ duplicate_groups = <<>>
    /\ futures = <<>>
    /\ \A a \in Attrs : \A f \in DOMAIN files : calls[a][f] = 0
    /\ progress # <<>>
    /\ files = <<>> => progress = << <<"No files to process", 0, 0>> >>

\* C11 witness: a run on two or more records of pairwise different sizes
\* returned after notifying the sink.
C11_UniqueSizesReturned ==
  /\ pc = "done"
  /\ Len(files) >= 2
  /\ \A f \in DOMAIN files : SizeIsUnique(f)
  /\ "No duplicate size candidates found" \in Labels(progress)

\* C12: the progress sink is notified at the start of each hashing stage,
\* before the first hashing task of the stage begins: once a task of the
\* partial (full) stage has left the queue, the sink has received the
\* notification of that stage.
C12_StageStartNotified ==
  /\ (pc = "partial_hashing" /\ \E k \in DOMAIN futures : futures[k].st # "queued")
       => "Computing partial hashes" \in Labels(progress)
  /\ (pc = "full_hashing" /\ \E k \in DOMAIN futures : futures[k].st # "queued")
       => "Computing full hashes" \in Labels(progress)

\* C13 as stated: on every returned run of find_duplicates_optimized, early
\* stops included, the last notification is ("Completed", number of returned
\* groups, ...).
C13_LastIsCompleted ==
  pc = "done" =>
    /\ progress # <<>>
    /\ Last(progress)[1] = "Completed"
    /\ Last(progress)[2] = Len(duplicate_groups)

\* C13, amended: on every returned run the last notification reports the
\* number of returned groups as its processed value and no closing
\* notification occurs before it; it is labelled "Completed" exactly when the
\* run reached the full hashing stage, and on an early stop it is one of the
\* three "No ..." notifications, with processed 0.
C13_LastReportsGroupCount ==
  pc = "done" =>
    /\ progress # <<>>
    /\ Last(progress)[2] = Len(duplicate_groups)
    /\ Last(progress)[1] = "Completed" <=> partial_candidates # <<>>
    /\ Last(progress)[1] \in StopLabels \cup {"Completed"}
    /\ \A i \in 1..(Len(progress) - 1) : progress[i][1] \notin StopLabels \cup {"Completed"}

\* C13 witness: a run stopped early after the partial stage, and its last
\* notification is the one of the early stop.
C13_EarlyStopReported ==
  /\ pc = "done"
  /\ progress # <<>>
  /\ Last(progress) = <<"No partial hash matches found", 0, Len(size_candidates)>>

\* C14: an exception raised by the progress sink does not end
\* find_duplicates_optimized: the call never terminates by raising.
C14_SinkFailureIgnored == pc # "raised"

AllFingerprintsSet ==
  \A f \in DOMAIN files : files[f].partial_hash # None /\ files[f].full_hash # None

\* the fingerprints are those of some contents: records with one full_hash
\* have one partial_hash, records with one partial_hash have one size
FingerprintsOfContent ==
  \A f, g \in DOMAIN files :
    /\ files[f].full_hash = files[g].full_hash
         => files[f].partial_hash = files[g].partial_hash
    /\ files[f].partial_hash = files[g].partial_hash => files[f].size = files[g].size

MemberSetsAndTotals(groups) ==
  { <<Range(groups[g].files), groups[g].total_size>> : g \in DOMAIN groups }

SameGroups(groups, others) ==
  /\ Len(groups) = Len(others)
  /\ MemberSetsAndTotals(groups) = MemberSetsAndTotals(others)

\* C15 as stated: for any list of records whose fingerprints are all set and
\* a hasher that leaves them unchanged, find_duplicates_optimized returns the
\* groups of find_duplicates: as many groups, the same member sets, the same
\* total sizes.
C15_OptimizedEqualsOriginal ==
  (pc = "done" /\ AllFingerprintsSet) =>
    SameGroups(duplicate_groups, find_duplicates(Indices(files)))

\* The two functions do return the same groups when, in addition, the
\* fingerprints are those of some contents (equal full_hash implies equal
\* partial_hash, equal partial_hash implies equal size).
C15_OptimizedEqualsOriginalOnContent ==
  (pc = "done" /\ AllFingerprintsSet /\ FingerprintsOfContent) =>
    SameGroups(duplicate_groups, find_duplicates(Indices(files)))

\* Such a run is reachable: over a mocked hasher it returned a group beside
\* two records that share size and partial_hash only.
C15_GroupFoundOverMock ==
  /\ pc = "done"
  /\ AllFingerprintsSet
  /\ FingerprintsOfContent
  /\ Len(duplicate_groups) = 1
  /\ \E f, g \in DOMAIN files :
       /\ f # g
       /\ ~InSomeGroup(f)
       /\ files[f].size = files[g].size
       /\ files[f].partial_hash = files[g].partial_hash
       /\ files[f].full_hash # files[g].full_hash

HasBoth(f) == files[f].partial_hash # None /\ files[f].full_hash # None

ClassOf(f) ==
  { g \in DOMAIN files :
      /\ HasBoth(g)
      /\ files[g].size = files[f].size
      /\ files[g].partial_hash = files[f].partial_hash
      /\ files[g].full_hash = files[f].full_hash }

DuplicateClasses ==
  { C \in { ClassOf(f) : f \in { h \in DOMAIN files : HasBoth(h) } } : Cardinality(C) >= 2 }

\* C16: find_duplicates returns exactly the classes of input records that
\* agree on size, partial_hash and full_hash, taken among the records whose
\* partial_hash and full_hash are both set, that have at least 2 members:
\* one group per class, each member once; a record with a None fingerprint is
\* in no group, and an empty or single-record input yields no group.
C16_GroupsAreClasses ==
  pc = "scan_done" =>
    /\ { Members(g) : g \in Groups } = DuplicateClasses
    /\ Len(duplicate_groups) = Cardinality(DuplicateClasses)
    /\ \A g \in Groups : Len(duplicate_groups[g].files) = Cardinality(Members(g))
    /\ \A f \in DOMAIN files : ~HasBoth(f) => ~InSomeGroup(f)
    /\ Len(files) <= 1 => duplicate_groups = <<>>

\* C16 witness: find_duplicates returned a group, and a record that misses a
\* fingerprint and agrees with a member on the other two fields is left out.
C16_GroupBesideMissingFingerprint ==
  /\ pc = "scan_done"
  /\ \E f, g \in DOMAIN files :
       /\ InSomeGroup(g)
       /\ ~InSomeGroup(f)
       /\ files[f].size = files[g].size
       /\ files[f].partial_hash = None
       /\ files[f].full_hash = files[g].full_hash

RECURSIVE SizesUpTo(_, _)
SizesUpTo(group_files, n) ==
  IF n = 0 THEN 0 ELSE SizesUpTo(group_files, n - 1) + files[group_files[n]].size

SumOfSizes(group) == SizesUpTo(group.files, Len(group.files))

\* C17: every DuplicateGroup returned by find_duplicates or by
\* find_duplicates_optimized has total_size equal to the sum of the sizes of
\* its member files.
C17_ReturnedTotalIsSum ==
  pc \in {"done", "scan_done"} =>
    \A g \in Groups : duplicate_groups[g].total_size = SumOfSizes(duplicate_groups[g])

\* C17 witness: find_duplicates_optimized returned a group of two 3-byte
\* files, total_size 6.
C17_TwoLargeFilesGrouped ==
  /\ pc = "done"
  /\ \E g \in Groups :
       /\ Len(duplicate_groups[g].files) = 2
       /\ duplicate_groups[g].total_size = 6

\* C18: for every DuplicateGroup, total_size equals the sum of size over its
\* files, whether it was computed on construction or supplied to the
\* constructor.
C18_TotalAlwaysSum ==
  \A g \in Groups : duplicate_groups[g].total_size = SumOfSizes(duplicate_groups[g])

\* hash(entire content): one update with all the bytes
hash_of(content) == hexdigest(hash_update(get_hash_object, content))

\* C19 (the file read is still on disk, its content is the one that was
\* hashed): calculate_partial_hash returns the hash of the entire content when
\* the file size is at most 2 x chunk_size, otherwise the hash of the first
\* chunk_size bytes followed by the last chunk_size bytes; for a file of at
\* most 2 x chunk_size bytes the partial fingerprint equals the full one.
C19_PartialHashValue ==
  \A f \in DOMAIN files :
    LET content == Content(f)
        n == Len(content)
    IN (pc = "single" /\ files[f].partial_hash # None /\ content # Missing) =>
         /\ n <= 2 * chunk_size => files[f].partial_hash = hash_of(content)
         /\ n > 2 * chunk_size =>
              files[f].partial_hash =
                hash_of(SubSeq(content, 1, chunk_size)
                        \o SubSeq(content, n - chunk_size + 1, n))
         /\ (n <= 2 * chunk_size /\ files[f].full_hash # None)
              => files[f].partial_hash = files[f].full_hash

\* C19 witness: both fingerprints of a file longer than 2 x chunk_size were
\* computed and differ, with a chunk of more than one byte.
C19_LargeFileHashed ==
  /\ pc = "single"
  /\ disk[1] # Missing
  /\ chunk_size > 1
  /\ \E f \in DOMAIN files :
       /\ Len(Content(f)) > 2 * chunk_size
       /\ files[f].partial_hash # None
       /\ files[f].full_hash # None
       /\ files[f].partial_hash # files[f].full_hash

\* C20 (the file read is still on disk): calculate_full_hash returns the hash of the entire content for every
\* file length and every chunk size, the empty file and lengths that are not
\* a multiple of the chunk size included.
C20_FullHashIsHashOfContent ==
  \A f \in DOMAIN files :
    (pc = "single" /\ files[f].full_hash # None /\ Content(f) # Missing)
      => files[f].full_hash = hash_of(Content(f))

\* C20 witness: the full fingerprint of a file of several chunks whose length
\* is not a multiple of the chunk size was computed.
C20_RaggedFileHashed ==
  /\ pc = "single"
  /\ disk[1] # Missing
  /\ \E f \in DOMAIN files :
       /\ files[f].full_hash # None
       /\ Len(Content(f)) > 2 * chunk_size
       /\ Len(Content(f)) % chunk_size # 0

\* C21: a single-file hash call that finds no file at the path, at the
\* exists() check or later at stat() or open() because the file was deleted
\* in between, fails with FileNotFoundError and with no other error kind.
C21_MissingFileIsNotFound ==
  raised.at \in {"exists", "stat", "open"} => raised.exc = "FileNotFoundError"

\* C22: calculate_partial_hash never ends with the error of a refused
\* backward seek: it falls back to streaming the file and returns.
C22_SeekFailureFallsBack == raised.at # "seek"

\* C23: a Hasher with an unsupported algorithm is rejected with ValueError at
\* construction, before any hash call; a hash call on a constructed Hasher
\* never fails because of the configured algorithm.
C23_ConfigurationErrorOnlyAtConstruction ==
  /\ pc = "rejected" =>
       /\ raised = [ exc |-> "ValueError", at |-> "__init__" ]
       /\ \A a \in Attrs : \A f \in DOMAIN files : calls[a][f] = 0
  /\ raised.exc \in {"ValueError", "TypeError"} => raised.at = "__init__"

\* FileMeta.__eq__: same path, size and modified_time
SameRecord(r, q) ==
  /\ r.path = q.path
  /\ r.size = q.size
  /\ r.modified_time = q.modified_time

\* C24: no group returned by find_duplicates_optimized holds the same record
\* (same path, size and modified_time) twice, also when the input list names
\* a file more than once.
C24_NoRecordTwiceInGroup ==
  pc = "done" =>
    \A g \in Groups :
      LET members == duplicate_groups[g].files
      IN \A i, j \in DOMAIN members :
           i # j => ~SameRecord(files[members[i]], files[members[j]])

\* C25: a scan started from the main view never hashes a collected file
\* whose size is unique, and reports progress through a progress callback.
C25_ScanSkipsUniqueSizes ==
  InScanHandler =>
    \A f \in DOMAIN files :
      SizeIsUnique(f) => \A a \in Attrs : calls[a][f] = 0

\* the task of record f for attribute a is over and its result is in place
TaskOver(a, f) ==
  /\ calls[a][f] = 1
  /\ \/ Failed(a, f)
     \/ (IF a = "partial_hash" THEN files[f].partial_hash ELSE files[f].full_hash)
          = hash_func(a, Content(f))

InPipeline == pc \in {"idle", "partial_hashing", "full_hashing", "done"}

\* C26: stages never overlap.  Once the grouping by partial fingerprint has
\* started, every partial hashing task of the run is over and its result is
\* written; a full hashing task exists only after that grouping has produced
\* the partial candidates; once the final grouping has started, every full
\* hashing task is over.
C26_StagesNeverOverlap ==
  InPipeline =>
    /\ "Grouping by partial hash" \in Labels(progress)
         => \A f \in Range(size_candidates) : TaskOver("partial_hash", f)
    /\ pc = "partial_hashing" =>
         /\ attr_name = "partial_hash"
         /\ \A f \in DOMAIN files : calls["full_hash"][f] = 0
    /\ (\E f \in DOMAIN files : calls["full_hash"][f] > 0) \/ pc = "full_hashing"
         => /\ "Grouping by partial hash" \in Labels(progress)
            /\ partial_candidates = collect_partial_candidates(size_candidates)
    /\ "Final grouping" \in Labels(progress)
         => \A f \in Range(partial_candidates) : TaskOver("full_hash", f)

\* C26 witness: a full hashing task is executing, after every partial
\* hashing task of the run has finished.
C26_FullTaskAfterPartialStage ==
  /\ pc = "full_hashing"
  /\ \E k \in DOMAIN futures : futures[k].st = "running"
  /\ \A f \in Range(size_candidates) : TaskOver("partial_hash", f)
  /\ Len(size_candidates) > Len(partial_candidates)

StageSteps ==
  { <<"idle", "partial_hashing">>, <<"idle", "done">>,
    <<"partial_hashing", "full_hashing">>, <<"partial_hashing", "done">>,
    <<"full_hashing", "done">> }

\* C27: a run of find_duplicates_optimized goes through the stages in the
\* order size, partial hash, full hash, done, entering each hashing stage at
\* most once: the partial stage is entered from the size stage only, with the
\* size candidates, the full stage from the partial stage only, with the
\* partial candidates and only when there are some, and no step leads back.
C27_StageOrder ==
  [][ (pc' # pc /\ pc' \notin {"hashes_computed", "scan_done"}) =>
        /\ <<pc, pc'>> \in StageSteps
        /\ pc' = "partial_hashing" => batch' = size_candidates'
        /\ pc' = "full_hashing" =>
             /\ partial_candidates' # <<>>
             /\ batch' = partial_candidates' ]_vars

\* C27 witness: a run returned after the partial stage left no candidate, and
\* no full hashing task ever ran.
C27_StoppedBeforeFullStage ==
  /\ pc = "done"
  /\ size_candidates # <<>>
  /\ partial_candidates = <<>>
  /\ \A f \in DOMAIN files : calls["full_hash"][f] = 0
  /\ \E f \in DOMAIN files : calls["partial_hash"][f] = 1

\* C28: in one call of the parallel runner there is exactly one task per
\* record of the batch: as many futures as records, no record twice in the
\* batch, no record hashed twice, and at the return every record hashed once.
C28_OneTaskPerRecord ==
  /\ Len(futures) = Len(batch)
  /\ \A i, j \in DOMAIN batch : i # j => batch[i] # batch[j]
  /\ \A f \in DOMAIN files : calls[attr_name][f] <= 1
  /\ \A k \in DOMAIN futures :
       futures[k].st \in {"done", "collected"} <=> calls[attr_name][batch[k]] = 1
  /\ pc = "returned" => \A f \in Range(batch) : calls[attr_name][f] = 1

\* C28 witness: a runner call on three records with fewer workers than
\* records returned.
C28_ThreeRecordsTwoWorkers ==
  /\ pc = "returned"
  /\ Len(batch) = 3
  /\ max_workers < Len(batch)
  /\ \A f \in Range(batch) : calls[attr_name][f] = 1

\* C29: during a hashing stage never more than max_workers tasks execute at
\* once, and the pool size of the pipeline's hashing stages is the configured
\* worker count.
C29_PoolIsConfiguredSize ==
  pc \in {"partial_hashing", "full_hashing"} =>
    /\ Cardinality(Running) <= max_workers
    /\ max_workers = parallel_workers
    /\ Cardinality(Running) <= parallel_workers

\* C30: no progress notification is emitted while a hashing task is in
\* flight: whenever the sink is called, every task submitted so far has been
\* collected (the pool of the preceding stage is joined).
C30_NoNotificationDuringHashing ==
  [][ progress' # progress =>
        \A k \in DOMAIN futures : futures[k].st = "collected" ]_vars

\* C30 witness: the notifications that follow the partial stage were made,
\* and tasks of the full stage are now executing.
C30_NotifiedBetweenStages ==
  /\ pc = "full_hashing"
  /\ "Grouping by partial hash" \in Labels(progress)
  /\ Cardinality(Running) >= 2

\* the outcome of the hash call of record f for attribute a: it raised
\* exactly when the runner logged a warning for it
Raised(a, f) == <<a, f>> \in warned

\* the run carried out one record after the other in list order, from the
\* records as passed in and the outcomes of the hash calls
SequentialPartial(f, cands) ==
  IF f \in Range(cands) /\ ~Raised("partial_hash", f)
  THEN calculate_partial_hash(disk[given_files[f].path])
  ELSE given_files[f].partial_hash

SequentialPartialCandidates ==
  LET cands == collect_size_candidates(Indices(given_files))
      with_partial == SelectSeq(cands, LAMBDA f : SequentialPartial(f, cands) # None)
      keys == [ i \in 1..Len(with_partial) |-> SequentialPartial(with_partial[i], cands) ]
  IN extend_all(at_least_two(group_by_key(with_partial, keys)))

SequentialFull(f, cands) ==
  IF f \in Range(cands) /\ ~Raised("full_hash", f)
  THEN calculate_full_hash(disk[given_files[f].path])
  ELSE given_files[f].full_hash

SequentialGroups ==
  LET cands == SequentialPartialCandidates
      with_full == SelectSeq(cands, LAMBDA f : SequentialFull(f, cands) # None)
      keys == [ i \in 1..Len(with_full) |-> SequentialFull(with_full[i], cands) ]
      exact == at_least_two(group_by_key(with_full, keys))
  IN [ g \in 1..Len(exact) |-> DuplicateGroup(exact[g], None) ]

\* C31: for a fixed input list and fixed outcomes of the hash calls, the list
\* find_duplicates_optimized returns is the same for every interleaving and
\* completion order of the tasks: it is the list a run hashing one record
\* after the other returns, same groups, same order, same order of members.
C31_ResultIndependentOfInterleaving ==
  pc = "done" => duplicate_groups = SequentialGroups

\* C31 witness: a run with three concurrent tasks, a failed hash call and a
\* stale fingerprint returned a group.
C31_GroupAfterFailureAndStale ==
  /\ pc = "done"
  /\ duplicate_groups # <<>>
  /\ warned # {}
  /\ Len(size_candidates) >= 3
  /\ \E f \in DOMAIN given_files : given_files[f].partial_hash # None

\* the step takes the result of the one task of record f, in the stage of
\* attribute a
TakesResultOf(a, f) ==
  /\ attr_name = a
  /\ pc = (IF a = "partial_hash" THEN "partial_hashing" ELSE "full_hashing")
  /\ \E k \in DOMAIN futures :
       /\ batch[k] = f
       /\ futures[k].st = "done"
       /\ futures'[k].st = "collected"
       /\ \A j \in DOMAIN futures : j # k => batch[j] # f

\* C32: a run of find_duplicates_optimized never changes path, size or
\* modified_time of a record; partial_hash changes only on a size candidate
\* and full_hash only on a partial candidate, each only when the result of
\* the record's one task of that stage is taken (so at most once per run);
\* a record eliminated at the size stage keeps both fingerprint fields.
C32_OnlyFingerprintsWritten ==
  [][ (InPipeline /\ pc' \notin {"hashes_computed", "scan_done"}) =>
        /\ DOMAIN files' = DOMAIN files
        /\ \A f \in DOMAIN files :
             /\ files'[f].path = files[f].path
             /\ files'[f].size = files[f].size
             /\ files'[f].modified_time = files[f].modified_time
             /\ files'[f].partial_hash # files[f].partial_hash =>
                  /\ f \in Range(size_candidates)
                  /\ TakesResultOf("partial_hash", f)
             /\ files'[f].full_hash # files[f].full_hash =>
                  /\ f \in Range(partial_candidates)
                  /\ TakesResultOf("full_hash", f)
             /\ (pc # "idle" /\ f \notin Range(size_candidates)) =>
                  files'[f] = given_files[f] ]_vars

\* C32 witness: a run returned groups; a record of unique size still has the
\* fingerprints of an earlier scan, and records of the groups were written.
C32_StaleKeptBesideWritten ==
  /\ pc = "done"
  /\ duplicate_groups # <<>>
  /\ \E f \in DOMAIN files :
       /\ f \notin Range(size_candidates)
       /\ files[f].partial_hash # None
       /\ files[f] = given_files[f]
  /\ \E f \in Range(partial_candidates) :
       /\ files[f].partial_hash # given_files[f].partial_hash
       /\ files[f].full_hash # given_files[f].full_hash

C33_RunnerReturnedAfterAllFailed ==
  /\ pc = "returned"
  /\ max_workers < Len(batch)
  /\ \A f \in Range(batch) : Raised(attr_name, f)

\* C34: no worker task writes a field of a record.  Every step that changes
\* a record is the coordinating thread taking one finished future: no other
\* future changes in that step, only the record of that future changes, and
\* the value written is the value the worker returned.
C34_OnlyCoordinatorWrites ==
  [][ files' # files =>
        \E k \in DOMAIN futures :
          /\ futures[k].st = "done"
          /\ futures'[k].st = "collected"
          /\ \A j \in DOMAIN futures : j # k => futures'[j] = futures[j]
          /\ \A f \in DOMAIN files : f # batch[k] => files'[f] = files[f]
          /\ Field(batch[k])' = futures[k].hash_value ]_vars

\* C34 witness: the result of one task has been written while two other
\* tasks, already over, wait for the coordinating thread.
C34_WrittenWhileOthersWait ==
  /\ pc = "direct"
  /\ \E k \in DOMAIN futures :
       /\ futures[k].st = "collected"
       /\ futures[k].exc = "None"
       /\ Field(batch[k]) = futures[k].hash_value
       /\ Field(batch[k]) # given_files[batch[k]][attr_name]
  /\ Cardinality({ k \in DOMAIN futures : futures[k].st = "done" }) = 2

\* record g is another record of the same size and partial fingerprint as f
SameSizeAndPartial(f, g) ==
  /\ g # f
  /\ files[g].size = files[f].size
  /\ files[g].partial_hash = files[f].partial_hash

\* C35: every record find_duplicates_optimized passes to the full hashing
\* stage has another record in that stage with the same size and the same
\* partial fingerprint; a record whose partial fingerprint is unique within
\* its size group is never full-hashed.
C35_FullStageOnlySameSizeAndPartial ==
  InPipeline =>
    /\ pc = "full_hashing" =>
         \A f \in Range(partial_candidates) :
           \E g \in Range(partial_candidates) : SameSizeAndPartial(f, g)
    /\ \A f \in DOMAIN files :
         calls["full_hash"][f] > 0 =>
           \E g \in DOMAIN files : SameSizeAndPartial(f, g)

\* the files this call put into the backup directory
Moved == { e \in backup_dir : e.from # 0 }

RECURSIVE SizeOfMoved(_)
SizeOfMoved(entries) ==
  IF entries = {} THEN 0
  ELSE LET e == CHOOSE x \in entries : TRUE
       IN PathSizes[e.from] + SizeOfMoved(entries \ {e})

\* C36: the result of delete_files accounts for each file exactly once:
\* total_deleted + total_failed is the number of files handled, which at the
\* return is the length of the list; total_deleted and total_failed are the
\* lengths of deleted_files and failed_files; space_saved is the sum of the
\* sizes of the files moved; a failure does not end the loop.
C36_ResultAccountsForEveryFile ==
  pc \in {"deleting", "deleted"} =>
    /\ result.total_deleted + result.total_failed = index
    /\ result.total_deleted = Len(result.deleted_files)
    /\ result.total_failed = Len(result.failed_files)
    /\ result.total_deleted = Cardinality(Moved)
    /\ result.space_saved = SizeOfMoved(Moved)
    /\ pc = "deleted" => index = Len(files)
    /\ Len(progress) = index

\* C36 witness: of three files the first could not be moved, and the two
\* after it were moved.
C36_MovedAfterFailure ==
  /\ pc = "deleted"
  /\ Len(files) = 3
  /\ result.failed_files # <<>>
  /\ result.failed_files[1][1] = files[1].path
  /\ result.deleted_files = << files[2].path, files[3].path >>

\* C37: delete_files never overwrites a file of the backup directory: every
\* file there stays, under its name and with its content, and every file
\* moved is added under a name that was free, so that all the files moved
\* are in the directory at the return.
C37_BackupNeverOverwritten ==
  [][ /\ \A e \in backup_dir : e \in backup_dir'
      /\ \A e \in backup_dir' \ backup_dir : e.name \notin names_in(backup_dir)
      /\ Len(result'.deleted_files) > Len(result.deleted_files) =>
           Cardinality(backup_dir') = Cardinality(backup_dir) + 1 ]_vars

\* C37 witness: "x/a" and "y/a" were moved into a directory that already
\* held "a": they are there as "a_1" and "a_2", and "x/a_1" as "a_1_1".
C37_SameNamesAllKept ==
  /\ pc = "deleted"
  /\ [ name |-> <<1>>, from |-> 0 ] \in backup_dir
  /\ [ name |-> <<1, 1>>, from |-> 1 ] \in backup_dir
  /\ [ name |-> <<1, 2>>, from |-> 2 ] \in backup_dir
  /\ [ name |-> <<1, 1, 1>>, from |-> 3 ] \in backup_dir

\* C38: in the results view, after any sequence of set_duplicate_groups,
\* toggle_file_selection, clear_selection and select_all_duplicates, the
\* delete button is disabled exactly when no file is selected, and toggling
\* any file twice gives the selection back.
C38_DeleteButtonFollowsSelection ==
  /\ delete_button_disabled <=> selected_files = {}
  /\ \A f \in DOMAIN files :
       toggle_file_selection(toggle_file_selection(selected_files, files[f]), files[f])
         = selected_files

\* C38 witness: groups are shown, a file kept by select_all_duplicates has
\* been selected by hand, and the delete button is enabled.
C38_SelectedByHand ==
  /\ pc = "view"
  /\ duplicate_groups # <<>>
  /\ ~delete_button_disabled
  /\ \E k \in selected_files : k \notin select_all_duplicates(duplicate_groups)

\* the files of the group that are not selected
Unselected(group) ==
  { key(files[group.files[i]]) : i \in DOMAIN group.files } \ selected_files

\* C39: after select_all_duplicates, every group of two or more files has
\* exactly one file that is not selected, a file with the least
\* modified_time of the group; the selection never holds every copy.
C39_OldestOfEveryGroupKept ==
  pc = "all_selected" =>
    \A g \in DOMAIN duplicate_groups :
      Len(duplicate_groups[g].files) >= 2 =>
        /\ Cardinality(Unselected(duplicate_groups[g])) = 1
        /\ \A k \in Unselected(duplicate_groups[g]) :
             \A i \in DOMAIN duplicate_groups[g].files :
               k[3] <= files[duplicate_groups[g].files[i]].modified_time

\* C39 witness: two groups are shown, one of them with three files of which
\* two are equally old and older than the third; files of both are selected.
C39_TwoGroupsWithTie ==
  /\ pc = "all_selected"
  /\ Len(duplicate_groups) = 2
  /\ \A g \in DOMAIN duplicate_groups : Len(duplicate_groups[g].files) >= 2
  /\ \E g \in DOMAIN duplicate_groups :
       \E i, j \in DOMAIN duplicate_groups[g].files :
         /\ i # j
         /\ files[duplicate_groups[g].files[i]].path # files[duplicate_groups[g].files[j]].path
         /\ files[duplicate_groups[g].files[i]].modified_time
              = files[duplicate_groups[g].files[j]].modified_time
         /\ key(files[duplicate_groups[g].files[j]]) \in selected_files
         /\ key(files[duplicate_groups[g].files[i]]) \notin selected_files

====
